---- MODULE Spec2Model ----
(***************************************************************************)
(* Screen (pyboy/botsupport/screen.py): the read-only view of the          *)
(* emulator's frame buffer, scroll/window registers and per-scanline       *)
(* register snapshots.                                                     *)
(*                                                                         *)
(* The renderer and the LCD (self.mb.renderer, self.mb.lcd) live in        *)
(* pyboy/core, outside screen.py; they are modelled here from the          *)
(* specification and from the docstrings of screen.py.  The frame is       *)
(* scaled down from 160 x 144 to COLS x ROWS.                              *)
(***************************************************************************)
EXTENDS Integers, Sequences, FiniteSets

VARIABLES
    installed,           \* the environment has Pillow (PIL) installed
    wraps,               \* this NumPy build wraps an out-of-range int given to uint8
    lcd,                 \* mb.lcd: the registers SCX, SCY, WX, WY
    screenbuffer_raw,    \* mb.renderer._screenbuffer_raw
    scanlineparameters,  \* mb.renderer._scanlineparameters
    buffer_dims,         \* mb.renderer.buffer_dims
    color_format,        \* mb.renderer.color_format
    ly,                  \* the scanline the renderer draws next
    log,                 \* number of logger.warning calls made by screen.py
    ret,                 \* the operation called last and what it returned
    mark                 \* a result remembered since the last renderer step

rendererVars == <<lcd, screenbuffer_raw, scanlineparameters, buffer_dims, color_format, ly>>
envVars == <<installed, wraps>>
vars == <<installed, wraps, lcd, screenbuffer_raw, scanlineparameters, buffer_dims,
          color_format, ly, log, ret, mark>>

\* ---------------------------------------------------------------- sizes
\* from .constants import COLS, ROWS (160 and 144 in the program, scaled down)
ROWS == 2
COLS == 3
\* bytes per pixel of the raw buffer: reshape(ROWS, COLS, 4)
CHANNELS == 4
\* get_tilemap_position: the window position is (WX - 7, WY)
WX_OFFSET == 7
\* np.uint8
UINT8 == 256

\* ------------------------------------------------------- python results
Value(v) == [kind |-> "value", exc |-> "", val |-> v]
Raise(e) == [kind |-> "raise", exc |-> e, val |-> <<>>]
None == [kind |-> "None", exc |-> "", val |-> <<>>]

SameResult(a, b) ==
    /\ a.kind = b.kind
    /\ a.exc = b.exc
    /\ (a.kind = "value" => a.val = b.val)

NoCall == [op |-> "none", res |-> None]
NoMark == [op |-> "none", res |-> None, again |-> FALSE]

\* ------------------------------------------------ the machine behind mb
\* Colours the renderer writes: 4 bytes per pixel, all bytes different.
Palette == << <<11, 12, 13, 14>>, <<21, 22, 23, 24>> >>

\* Register contents a game writes (power-on is all zero).
PowerOn == [SCX |-> 0, SCY |-> 0, WX |-> 0, WY |-> 0]
RegSettings ==
    { PowerOn,
      [SCX |-> 1, SCY |-> 2, WX |-> 10, WY |-> 4],
      [SCX |-> 255, SCY |-> 254, WX |-> 255, WY |-> 253] }

InitScreenBuffer == [i \in 1..(ROWS * COLS * CHANNELS) |-> 0]

getviewport(l) == <<l.SCX, l.SCY>>
getwindowpos(l) == <<l.WX - WX_OFFSET, l.WY>>

\* self.mb as the methods of Screen see it
mb ==
    [lcd |-> lcd,
     renderer |-> [_screenbuffer_raw |-> screenbuffer_raw,
                   _scanlineparameters |-> scanlineparameters,
                   buffer_dims |-> buffer_dims,
                   color_format |-> color_format]]

\* ------------------------------------------------------- module imports
\* import numpy as np / from PIL import Image / ...: the import of PIL is
\* unconditional, so without Pillow the import of screen.py raises ImportError
\* and no name of the module is bound.
import_screen ==
    IF installed
    THEN [ok |-> TRUE, Image |-> "PIL.Image"]
    ELSE [ok |-> FALSE, Image |-> "unbound"]

\* Python truth value of a module-level name: a module object is true.
Truthy(obj) == obj \notin {"None", "unbound"}

\* ---------------------------------------------------------------- numpy
\* np.array([a, b, c, d], dtype=np.uint8): a value outside 0..255 wraps modulo
\* 256 or raises OverflowError, depending on the NumPy build.
np_array_uint8(line) ==
    IF \A k \in 1..Len(line) : line[k] \in 0..(UINT8 - 1)
    THEN Value(line)
    ELSE IF wraps
         THEN Value([k \in 1..Len(line) |-> line[k] % UINT8])
         ELSE Raise("OverflowError")

\* np.vstack(list of rows): an empty list raises ValueError.
np_vstack(arrays) ==
    IF Len(arrays) = 0 THEN Raise("ValueError") ELSE Value(arrays)

\* np.frombuffer(buf, dtype=np.uint8).reshape(rows, cols, ch)
np_reshape(buf, rows, cols, ch) ==
    IF Len(buf) # rows * cols * ch
    THEN Raise("ValueError")
    ELSE Value([y \in 1..rows |-> [x \in 1..cols |-> [c \in 1..ch |->
                    buf[((y - 1) * cols + (x - 1)) * ch + c]]]])

\* arr[:, :, 1:]
slice_from_1(arr) ==
    [y \in 1..Len(arr) |-> [x \in 1..Len(arr[y]) |-> Tail(arr[y][x])]]

\* arr.shape of a 3-dimensional array
shape(arr) == <<Len(arr), Len(arr[1]), Len(arr[1][1])>>

\* ------------------------------------------------------------------ PIL
\* Image.fromarray(arr, 'RGB'): an image of size (shape[1], shape[0]) whose
\* bytes are the array's, row-major.
Image_fromarray(arr) ==
    LET h == Len(arr)
        w == Len(arr[1])
        b == Len(arr[1][1])
    IN  [mode |-> "RGB",
         size |-> <<w, h>>,
         data |-> [i \in 1..(h * w * b) |->
                     arr[((i - 1) \div (w * b)) + 1]
                        [(((i - 1) \div b) % w) + 1]
                        [((i - 1) % b) + 1]]]

\* Image.getpixel((x, y)) of an RGB image, x and y from 0
getpixel(img, x, y) ==
    LET base == (y * img.size[1] + x) * 3
    IN  <<img.data[base + 1], img.data[base + 2], img.data[base + 3]>>

\* --------------------------------------------------- Screen, the methods
get_tilemap_position(m) == Value(<<getviewport(m.lcd), getwindowpos(m.lcd)>>)

get_tilemap_position_list(m) ==
    LET params == m.renderer._scanlineparameters
        rows == [i \in 1..Len(params) |->
                    np_array_uint8(<<params[i][1], params[i][2], params[i][3], params[i][4]>>)]
    IN  IF \E i \in 1..Len(params) : rows[i].kind = "raise"
        THEN Raise("OverflowError")
        ELSE np_vstack([i \in 1..Len(params) |-> rows[i].val])

\* Variant: the buffer captured when the Screen was constructed.
get_raw_screen_buffer_cached(m) == Value(InitScreenBuffer)

get_raw_screen_buffer(m) == Value(m.renderer._screenbuffer_raw)

get_raw_screen_buffer_dims(m) == Value(m.renderer.buffer_dims)

get_raw_screen_buffer_format(m) == Value(m.renderer.color_format)

\* Variant: the two axes given to reshape in the order of buffer_dims.
get_screen_ndarray_swapped(m) ==
    LET grid == np_reshape(get_raw_screen_buffer(m).val, COLS, ROWS, CHANNELS)
    IN  IF grid.kind = "raise" THEN grid ELSE Value(slice_from_1(grid.val))

get_screen_ndarray(m) ==
    LET grid == np_reshape(get_raw_screen_buffer(m).val, ROWS, COLS, CHANNELS)
    IN  IF grid.kind = "raise" THEN grid ELSE Value(slice_from_1(grid.val))

\* Variant: the image built from the first three bytes of each raw pixel.
get_screen_image_from_raw(Image, m) ==
    IF ~Truthy(Image)
    THEN [res |-> None, warnings |-> 1]
    ELSE LET grid == np_reshape(get_raw_screen_buffer(m).val, ROWS, COLS, CHANNELS)
             arr == [y \in 1..ROWS |-> [x \in 1..COLS |-> SubSeq(grid.val[y][x], 1, 3)]]
         IN  [res |-> IF grid.kind = "raise" THEN grid ELSE Value(Image_fromarray(arr)),
              warnings |-> 0]

\* returns the result and the number of warnings logged
get_screen_image(Image, m) ==
    IF ~Truthy(Image)
    THEN [res |-> None, warnings |-> 1]
    ELSE LET arr == get_screen_ndarray(m)
         IN  [res |-> IF arr.kind = "raise" THEN arr ELSE Value(Image_fromarray(arr.val)),
              warnings |-> 0]

\* ------------------------------------------------------------ the state
Init ==
    /\ installed \in BOOLEAN
    /\ wraps \in BOOLEAN
    /\ lcd = PowerOn
    /\ screenbuffer_raw = InitScreenBuffer
    /\ scanlineparameters = <<>>
    /\ buffer_dims = <<COLS, ROWS>>
    /\ color_format = "RGBA"
    /\ ly = 0
    /\ log = 0
    /\ ret = NoCall
    /\ mark = NoMark

\* ------------------------------------------------- steps of the machine
\* The game writes the scroll and window registers.
SetRegisters(s) ==
    /\ lcd # s
    /\ lcd' = s
    /\ ret' = NoCall
    /\ mark' = NoMark
    /\ UNCHANGED <<screenbuffer_raw, scanlineparameters, buffer_dims, color_format, ly,
                   log, envVars>>

\* The background is a checkerboard of the two palette colours; the pixel at
\* column x of a line scrolled by scx is its entry (x + scx) % 2.
LinePixel(scx, x) == Palette[((x + scx) % 2) + 1]

\* The renderer draws line ly from the registers and records the registers it
\* used.
scanline ==
    LET y == ly
        rec == getviewport(lcd) \o getwindowpos(lcd)
        first == y * COLS * CHANNELS
    IN  /\ scanlineparameters' =
              IF y < Len(scanlineparameters)
              THEN [scanlineparameters EXCEPT ![y + 1] = rec]
              ELSE Append(scanlineparameters, rec)
        /\ screenbuffer_raw' =
              [i \in 1..Len(screenbuffer_raw) |->
                  IF (i - 1) \div (COLS * CHANNELS) = y
                  THEN LinePixel(lcd.SCX, ((i - 1 - first) \div CHANNELS))[((i - 1) % CHANNELS) + 1]
                  ELSE screenbuffer_raw[i]]
        /\ ly' = (ly + 1) % ROWS
        /\ ret' = NoCall
        /\ mark' = NoMark
        /\ UNCHANGED <<lcd, buffer_dims, color_format, log, envVars>>

\* ------------------------------------------------- calls of the methods
\* A call returns res (ImportError when screen.py could not be imported).  The
\* caller may keep the result, to compare it with what a later call of the same
\* operation returns before the next step of the machine.
Respond(op, res) ==
    LET got == IF import_screen.ok THEN res ELSE Raise("ImportError")
    IN  /\ ret' = [op |-> op, res |-> got]
        /\ \E keep \in BOOLEAN :
              mark' = IF keep
                      THEN [op |-> op, res |-> got, again |-> FALSE]
                      ELSE IF mark.op = op
                           THEN [mark EXCEPT !.again = TRUE]
                           ELSE mark

Screen_get_tilemap_position ==
    /\ Respond("get_tilemap_position", get_tilemap_position(mb))
    /\ UNCHANGED <<rendererVars, envVars, log>>

\* Variant: the records are handed over and the renderer's list is emptied.
Screen_get_tilemap_position_list_drain ==
    /\ Respond("get_tilemap_position_list", get_tilemap_position_list(mb))
    /\ scanlineparameters' = <<>>
    /\ UNCHANGED <<lcd, screenbuffer_raw, buffer_dims, color_format, ly, envVars, log>>

Screen_get_tilemap_position_list ==
    /\ Respond("get_tilemap_position_list", get_tilemap_position_list(mb))
    /\ UNCHANGED <<rendererVars, envVars, log>>

\* Variant: the bytes are handed over and the buffer is cleared.
Screen_get_raw_screen_buffer_take ==
    /\ Respond("get_raw_screen_buffer", get_raw_screen_buffer(mb))
    /\ screenbuffer_raw' = InitScreenBuffer
    /\ UNCHANGED <<lcd, scanlineparameters, buffer_dims, color_format, ly, envVars, log>>

Screen_get_raw_screen_buffer ==
    /\ Respond("get_raw_screen_buffer", get_raw_screen_buffer(mb))
    /\ UNCHANGED <<rendererVars, envVars, log>>

Screen_get_raw_screen_buffer_dims ==
    /\ Respond("get_raw_screen_buffer_dims", get_raw_screen_buffer_dims(mb))
    /\ UNCHANGED <<rendererVars, envVars, log>>

Screen_get_raw_screen_buffer_format ==
    /\ Respond("get_raw_screen_buffer_format", get_raw_screen_buffer_format(mb))
    /\ UNCHANGED <<rendererVars, envVars, log>>

Screen_get_screen_ndarray ==
    /\ Respond("get_screen_ndarray", get_screen_ndarray(mb))
    /\ UNCHANGED <<rendererVars, envVars, log>>

Screen_get_screen_image ==
    /\ IF import_screen.ok
       THEN LET out == get_screen_image(import_screen.Image, mb)
            IN  /\ Respond("get_screen_image", out.res)
                /\ log' = log + out.warnings
       ELSE /\ Respond("get_screen_image", Raise("ImportError"))
            /\ log' = log
    /\ UNCHANGED <<rendererVars, envVars>>

Next ==
    \/ \E s \in RegSettings : SetRegisters(s)
    \/ scanline
    \/ Screen_get_tilemap_position
    \/ Screen_get_tilemap_position_list
    \/ Screen_get_raw_screen_buffer
    \/ Screen_get_raw_screen_buffer_dims
    \/ Screen_get_raw_screen_buffer_format
    \/ Screen_get_screen_ndarray
    \/ Screen_get_screen_image

Spec == Init /\ [][Next]_vars

\* ------------------------------------------------------------ properties
WIDTH == buffer_dims[1]
HEIGHT == buffer_dims[2]
Called(op) == installed /\ ret.op = op
Returned(op) == Called(op) /\ ret.res.kind = "value"

\* C1: for every buffer content get_screen_ndarray is the raw buffer seen as a
\* (HEIGHT, WIDTH, 4) grid with the LAST channel of each pixel removed:
\* result[y][x][c] = raw[(y * WIDTH + x) * 4 + c] for c in 0..2.
C1_DisplayDropsLastChannel ==
    Called("get_screen_ndarray") =>
        /\ ret.res.kind = "value"
        /\ \A y \in 0..(HEIGHT - 1), x \in 0..(WIDTH - 1), c \in 0..2 :
              ret.res.val[y + 1][x + 1][c + 1]
                 = screenbuffer_raw[(y * WIDTH + x) * CHANNELS + c + 1]

\* C2: with fewer than HEIGHT scanline records (none, or a part of a frame)
\* get_tilemap_position_list fails with UnavailableError and returns no table.
C2_ShortSequenceIsUnavailable ==
    (Called("get_tilemap_position_list") /\ Len(scanlineparameters) < HEIGHT) =>
        /\ ret.res.kind = "raise"
        /\ ret.res.exc = "UnavailableError"

\* C3: with a full sequence of HEIGHT records get_tilemap_position_list returns
\* HEIGHT rows of 4 unsigned 8-bit values, row i equal to record i field for
\* field, the window X offset (WX - 7) at its extremes included.
C3_TableEqualsRecords ==
    (Called("get_tilemap_position_list") /\ Len(scanlineparameters) = HEIGHT) =>
        /\ ret.res.kind = "value"
        /\ Len(ret.res.val) = HEIGHT
        /\ \A i \in 1..HEIGHT :
              /\ Len(ret.res.val[i]) = 4
              /\ \A k \in 1..4 : ret.res.val[i][k] \in 0..(UINT8 - 1)
              /\ ret.res.val[i] = scanlineparameters[i]

C5_RepeatedCallsAgree ==
    [][(ret'.op # "none" /\ mark.op = ret'.op) => SameResult(ret'.res, mark.res)]_vars

C5_Witness ==
    /\ mark.op = "get_raw_screen_buffer"
    /\ mark.again
    /\ ret.op = "get_screen_image"
    /\ screenbuffer_raw # InitScreenBuffer

\* C6: no call of an operation of Screen, failed or not, changes the frame
\* buffer, the scanline records, the registers, the dimensions or the format.
C6_CallsLeaveRendererAlone ==
    [][ret'.op # "none" => UNCHANGED rendererVars]_vars

C6_Witness ==
    /\ Called("get_tilemap_position_list")
    /\ ret.res.kind = "raise"
    /\ Len(scanlineparameters) = ROWS
    /\ screenbuffer_raw # InitScreenBuffer

\* C7: without the image capability get_screen_image does not raise, returns
\* None and logs a diagnostic, and every other operation returns its result.
C7_SoftFailWithoutPillow ==
    (~installed /\ ret.op # "none") =>
        /\ ret.res.kind # "raise"
        /\ ret.op = "get_screen_image" => (ret.res.kind = "None" /\ log >= 1)

\* C8: every call returns the projection of the renderer state at the moment
\* of the call, never a value captured earlier.
C8_ViewsAreCurrent ==
    /\ Called("get_raw_screen_buffer") => ret.res = Value(screenbuffer_raw)
    /\ Called("get_tilemap_position") =>
          ret.res = Value(<< <<lcd.SCX, lcd.SCY>>, <<lcd.WX - WX_OFFSET, lcd.WY>> >>)
    /\ Called("get_screen_ndarray") =>
          /\ ret.res.kind = "value"
          /\ \A y \in 1..ROWS, x \in 1..COLS, c \in 1..3 :
                ret.res.val[y][x][c]
                   = screenbuffer_raw[((y - 1) * COLS + (x - 1)) * CHANNELS + c + 1]
    /\ Returned("get_tilemap_position_list") =>
          /\ Len(ret.res.val) = Len(scanlineparameters)
          /\ \A i \in 1..Len(scanlineparameters), k \in 1..4 :
                ret.res.val[i][k] = scanlineparameters[i][k] % UINT8

C8_Witness ==
    /\ Returned("get_raw_screen_buffer")
    /\ screenbuffer_raw # InitScreenBuffer
    /\ lcd # PowerOn
    /\ ly = 1

\* C9: with the image capability the image of get_screen_image is WIDTH x
\* HEIGHT, 3 channels, and its pixel (x, y) is get_screen_ndarray()[y][x].
C9_ImageMatchesArray ==
    Called("get_screen_image") =>
        /\ ret.res.kind = "value"
        /\ ret.res.val.size = <<WIDTH, HEIGHT>>
        /\ ret.res.val.mode = "RGB"
        /\ Len(ret.res.val.data) = WIDTH * HEIGHT * 3
        /\ \A x \in 0..(WIDTH - 1), y \in 0..(HEIGHT - 1) :
              getpixel(ret.res.val, x, y) = get_screen_ndarray(mb).val[y + 1][x + 1]

C9_Witness ==
    /\ Returned("get_screen_image")
    /\ screenbuffer_raw # InitScreenBuffer
    /\ \E i \in 1..Len(screenbuffer_raw) : screenbuffer_raw[i] = 0

\* C10: without the image capability the diagnostic is logged once over any
\* number of get_screen_image calls, not once per call and never more than once.
C10_DiagnosticLoggedOnce ==
    /\ ~installed => log <= 1
    /\ (~installed /\ ret.op = "get_screen_image") => log = 1

====
